---- MODULE Spec2Model ----
(***************************************************************************)
(* Model of scripts/identity.py: the canonical-id sanitizer, the identity  *)
(* map file with its load/save protocol, the resolver and the channel      *)
(* manager.                                                                *)
(*                                                                         *)
(* Strings are sequences of one-character strings, so that lower-casing,   *)
(* filtering, stripping, truncation, concatenation and key ordering are    *)
(* computed as the code computes them.                                     *)
(***************************************************************************)
EXTENDS Integers, Sequences, FiniteSets, TLC

(***************************************************************************)
(* Bounds of the model.                                                    *)
(***************************************************************************)
\* number of saving calls made one at a time (each takes one timestamp)
MaxClock == 2
\* number of saving calls the concurrent callers make in all
MaxSaves == 2
\* number of concurrently running callers
NumProcs == 2
\* the concurrent callers
Procs == 1..NumProcs
\* length of the short raw strings handed to the sanitizer
MaxRawLen == 2

(***************************************************************************)
(* Characters and strings.                                                 *)
(***************************************************************************)
Uppers == <<"A","B","C","D","E","F","G","H","I","J","K","L","M",
            "N","O","P","Q","R","S","T","U","V","W","X","Y","Z">>
Lowers == <<"a","b","c","d","e","f","g","h","i","j","k","l","m",
            "n","o","p","q","r","s","t","u","v","w","x","y","z">>
Digits == <<"0","1","2","3","4","5","6","7","8","9">>

\* code point order of the characters a sanitized id can contain
CharOrder == <<"-">> \o Digits \o <<"_">> \o Lowers

Range(s) == {s[i] : i \in DOMAIN s}

\* the characters of the model's strings
Alphabet ==
    Range(Uppers) \cup Range(Lowers) \cup Range(Digits)
    \cup {"-", "_", ".", "/", ":", " "}

\* str.lower, character by character
LowerTable ==
    [c \in Alphabet |->
        IF c \in Range(Uppers)
        THEN Lowers[CHOOSE i \in DOMAIN Uppers : Uppers[i] = c]
        ELSE c]

\* str.upper, character by character
UpperTable ==
    [c \in Alphabet |->
        IF c \in Range(Lowers)
        THEN Uppers[CHOOSE i \in DOMAIN Lowers : Lowers[i] = c]
        ELSE c]

LowerChar(c) == LowerTable[c]

UpperChar(c) == UpperTable[c]

\* str.lower
LowerStr(s) == [i \in DOMAIN s |-> LowerChar(s[i])]

\* str.capitalize: first character upper-cased, the rest lower-cased
Capitalize(s) ==
    [i \in DOMAIN s |-> IF i = 1 THEN UpperChar(s[i]) ELSE LowerChar(s[i])]

\* the character class [a-z0-9\-_] of the sanitizer's regular expression
AllowedChars == Range(Lowers) \cup Range(Digits) \cup {"-", "_"}

\* re.sub(r'[^a-z0-9\-_]', '', s)
RECURSIVE KeepAllowed(_)
KeepAllowed(s) ==
    IF s = <<>> THEN <<>>
    ELSE IF Head(s) \in AllowedChars
         THEN <<Head(s)>> \o KeepAllowed(Tail(s))
         ELSE KeepAllowed(Tail(s))

\* str.lstrip('-_')
RECURSIVE LStrip(_)
LStrip(s) ==
    IF s = <<>> THEN <<>>
    ELSE IF Head(s) \in {"-", "_"} THEN LStrip(Tail(s)) ELSE s

\* str.rstrip('-_')
RECURSIVE RStrip(_)
RStrip(s) ==
    IF s = <<>> THEN <<>>
    ELSE IF s[Len(s)] \in {"-", "_"}
         THEN RStrip(SubSeq(s, 1, Len(s) - 1))
         ELSE s

\* str.strip('-_')
Strip(s) == RStrip(LStrip(s))

\* a slice that cuts nothing
Truncate_Keep(s, n) == s

\* the slice s[:n]
Truncate(s, n) == IF Len(s) <= n THEN s ELSE SubSeq(s, 1, n)

\* maximum length of a canonical id
MaxIdLen == 64

\* the outcome of a call that can raise: raised, or a value
\* raise ValueError(f"Invalid canonical_id: {canonical_id}")
Raise == [raised |-> TRUE, val |-> <<>>]
\* the TypeError of '"identities" not in data' for data that is no container
TypeError == [raised |-> TRUE, val |-> <<>>, error |-> "TypeError"]
Return(v) == [raised |-> FALSE, val |-> v]

\* _sanitize_canonical_id: lower, filter, strip, truncate, then reject
\* the empty string (and a leading '.' or a '/')
sanitize_canonical_id(canonical_id) ==
    LET filtered  == KeepAllowed(LowerStr(canonical_id))
        stripped  == Strip(filtered)
        sanitized == Truncate(stripped, MaxIdLen)
    IN  IF sanitized = <<>>
           \/ Head(sanitized) = "."
           \/ "/" \in Range(sanitized)
        THEN Raise
        ELSE Return(sanitized)

\* position of a character in code point order
CodeTable ==
    [c \in Range(CharOrder) |-> CHOOSE i \in DOMAIN CharOrder : CharOrder[i] = c]

CharCode(c) == CodeTable[c]

\* s < t in Python's string order (lexicographic by code point)
RECURSIVE StrLess(_, _)
StrLess(s, t) ==
    IF t = <<>> THEN FALSE
    ELSE IF s = <<>> THEN TRUE
    ELSE IF Head(s) = Head(t) THEN StrLess(Tail(s), Tail(t))
    ELSE CharCode(Head(s)) < CharCode(Head(t))

\* f"{channel}:{provider_user_id}"
ChannelId(channel, provider_user_id) ==
    channel \o <<":">> \o provider_user_id

\* the stranger id without its "stranger:" prefix
StrangerId_NoPrefix(channel, provider_user_id) ==
    channel \o <<":">> \o provider_user_id

\* f"stranger:{channel}:{provider_user_id}"
StrangerId(channel, provider_user_id) ==
    <<"s","t","r","a","n","g","e","r",":">> \o channel \o <<":">> \o provider_user_id

\* the literal "owner"
OwnerLiteral == <<"o","w","n","e","r">>

(***************************************************************************)
(* The identity map.  In memory it is a Python dict, which keeps insertion *)
(* order: a sequence of records, each carrying its key as canonical_id.    *)
(***************************************************************************)
EmptyMap == [version |-> "1.0", identities |-> <<>>]

\* the record literals of resolve_canonical_id and add_channel
NewRecord(canonical_id, owner, display_name, now) ==
    [canonical_id |-> canonical_id,
     is_owner     |-> owner,
     display_name |-> display_name,
     channels     |-> <<>>,
     created_at   |-> now,
     updated_at   |-> now]

\* the keys of the dict
Keys(ids) == {ids[i].canonical_id : i \in DOMAIN ids}

\* position of key k in the dict (k is a key)
IndexOf(ids, k) == CHOOSE i \in DOMAIN ids : ids[i].canonical_id = k

\* identities[k]
Lookup(ids, k) == ids[IndexOf(ids, k)]

\* an assignment that replaces the whole dict by the one record
SetItem_Replace(ids, k, rec) == <<rec>>

\* identities[k] = rec: replaces the value in place when k is a key,
\* appends otherwise
SetItem(ids, k, rec) ==
    IF k \in Keys(ids)
    THEN [ids EXCEPT ![IndexOf(ids, k)] = rec]
    ELSE Append(ids, rec)

\* list.remove(x): removes the first occurrence
RECURSIVE ListRemove(_, _)
ListRemove(l, x) ==
    IF l = <<>> THEN <<>>
    ELSE IF Head(l) = x THEN Tail(l)
    ELSE <<Head(l)>> \o ListRemove(Tail(l), x)

\* number of occurrences of x in a list
Count(l, x) == Cardinality({i \in DOMAIN l : l[i] = x})

(***************************************************************************)
(* The file format: json.dump(data, f, indent=2, sort_keys=True) writes    *)
(* the records in increasing key order.                                    *)
(***************************************************************************)
RECURSIVE InsertSorted(_, _)
InsertSorted(sorted, rec) ==
    IF sorted = <<>> THEN <<rec>>
    ELSE IF StrLess(rec.canonical_id, Head(sorted).canonical_id)
         THEN <<rec>> \o sorted
         ELSE <<Head(sorted)>> \o InsertSorted(Tail(sorted), rec)

RECURSIVE SortByKey(_)
SortByKey(ids) ==
    IF ids = <<>> THEN <<>>
    ELSE InsertSorted(SortByKey(SubSeq(ids, 1, Len(ids) - 1)), ids[Len(ids)])

\* the document json.dump writes for a map
Serialize(map) == [version |-> map.version, identities |-> SortByKey(map.identities)]

\* sum of f over a sequence
RECURSIVE SumSeq(_)
SumSeq(s) == IF s = <<>> THEN 0 ELSE Head(s) + SumSeq(Tail(s))

\* length in characters of the document of an empty map
EmptyDocLen == 42
\* characters added by a non-empty "identities" object
IdentitiesOpenLen == 2
\* characters of a record besides its key, display name and channels
RecordBaseLen == 229
\* characters added by a non-empty "channels" array
ChannelsOpenLen == 6
\* characters of a channel entry besides the channel string
ChannelEntryLen == 12

\* length of one record in the written document ("true" is one character
\* shorter than "false"; a timestamp is always 33 characters long)
RecordLen(rec) ==
    RecordBaseLen + 2 * Len(rec.canonical_id) + Len(rec.display_name)
    - (IF rec.is_owner THEN 1 ELSE 0)
    + (IF rec.channels = <<>> THEN 0
       ELSE ChannelsOpenLen
            + SumSeq([i \in DOMAIN rec.channels |->
                        ChannelEntryLen + Len(rec.channels[i])]))

\* length in characters of the document json.dump writes
DocLen(doc) ==
    EmptyDocLen
    + (IF doc.identities = <<>> THEN 0 ELSE IdentitiesOpenLen)
    + SumSeq([i \in DOMAIN doc.identities |-> RecordLen(doc.identities[i])])

(***************************************************************************)
(* The file system: the inodes, the directory entries of the map file      *)
(* (identity-map.json) and of the temporary file (identity-map.tmp), and   *)
(* the exclusive flock held on each inode.                                 *)
(*                                                                         *)
(* A save writes its whole document with one write at offset 0 of its own  *)
(* file descriptor, so the content of an inode is the document written     *)
(* last together with the length of the file: the file is longer than the  *)
(* document when an earlier, longer document was written to the same inode *)
(* and its tail is still there.                                            *)
(*                                                                         *)
(* A file some other program wrote is text that is no JSON, a JSON object  *)
(* without the key "identities", or the JSON value null.                   *)
(***************************************************************************)
\* what a file holds: the document of a map, or what another program wrote
FileKinds == {"store", "text", "object", "null"}

\* one inode for the map file and one for each caller's temporary file
InodeIds == 1..(Cardinality(Procs) + 1)
NoFile == 0
NoPid == 0

\* a file of length 0 (just created, or truncated by open(path, 'w'))
Blank ==
    [written |-> FALSE, doc |-> Serialize(EmptyMap), size |-> 0, kind |-> "store"]

FsInit ==
    [inode  |-> [i \in InodeIds |-> Blank],
     target |-> NoFile,
     tmp    |-> NoFile,
     lock   |-> [i \in InodeIds |-> NoPid]]

\* the inode a newly created file gets: the smallest one not in use
FreshInode(inUse) ==
    CHOOSE i \in InodeIds \ inUse : \A j \in InodeIds \ inUse : i <= j

\* inodes with no directory entry and no open descriptor are gone
Release(f, fds) ==
    [f EXCEPT !.inode = [i \in InodeIds |->
        IF i \in ({f.target, f.tmp} \cup fds) THEN f.inode[i] ELSE Blank]]

\* inode numbers are names only: when the map file is the only file left,
\* it is numbered 1
Collect(f, fds) ==
    LET g == Release(f, fds)
    IN  IF fds = {} /\ g.tmp = NoFile /\ g.target # NoFile
        THEN [g EXCEPT !.target = 1,
                       !.inode = [i \in InodeIds |->
                                    IF i = 1 THEN g.inode[g.target] ELSE Blank]]
        ELSE g

\* open(temp_path, 'w'): truncates the file at the temporary path when
\* there is one, creates it otherwise; the result is the descriptor's inode
OpenTmpFd(f, fds) ==
    IF f.tmp # NoFile THEN f.tmp ELSE FreshInode({f.target} \cup fds)

OpenTmp(f, fds) ==
    LET fd == OpenTmpFd(f, fds)
    IN  [f EXCEPT !.tmp = fd, !.inode[fd] = Blank]

\* a write of the document of the empty map, whatever the data
WriteDoc_Empty(f, fd, doc) ==
    [f EXCEPT !.inode[fd] =
        [written |-> TRUE,
         doc     |-> Serialize(EmptyMap),
         size    |-> IF f.inode[fd].size > DocLen(Serialize(EmptyMap))
                     THEN f.inode[fd].size ELSE DocLen(Serialize(EmptyMap)),
         kind    |-> "store"]]

\* json.dump + flush + fsync: the buffered document reaches the inode in
\* one write at offset 0
WriteDoc(f, fd, doc) ==
    [f EXCEPT !.inode[fd] =
        [written |-> TRUE,
         doc     |-> doc,
         size    |-> IF f.inode[fd].size > DocLen(doc)
                     THEN f.inode[fd].size ELSE DocLen(doc),
         kind    |-> "store"]]

\* temp_path.replace(map_path) fails when there is no temporary file
RenameFails(f) == f.tmp = NoFile

\* a rename that removes the temporary path and leaves the map file alone
RenameTmp_Keep(f) == [f EXCEPT !.tmp = NoFile]

\* temp_path.replace(map_path): the directory entry of the map file now
\* names whatever inode the temporary path named
RenameTmp(f) == [f EXCEPT !.target = f.tmp, !.tmp = NoFile]

\* finally: if temp_path.exists(): temp_path.unlink()
UnlinkTmp(f) == [f EXCEPT !.tmp = NoFile]

\* json.load of a file: fails on an empty file, on a document followed
\* by the tail of a longer one, and on text that is no JSON
ParseFails(content) ==
    \/ ~content.written
    \/ content.size # DocLen(content.doc)
    \/ content.kind = "text"

\* the dict json.load builds keeps the order of the document
Parse(content) ==
    [version |-> content.doc.version, identities |-> content.doc.identities]

\* if "identities" not in data: raises TypeError when json.load returned
\* None; the except clause names JSONDecodeError and IOError only
LoadRaises(f) ==
    IF f.target = NoFile THEN FALSE
    ELSE /\ ~ParseFails(f.inode[f.target])
         /\ f.inode[f.target].kind = "null"

\* _load_identity_map when it returns: a missing file, an unparseable file
\* and an object without "identities" give the empty map
load_identity_map(f) ==
    IF f.target = NoFile THEN EmptyMap
    ELSE IF ParseFails(f.inode[f.target]) THEN EmptyMap
    ELSE IF f.inode[f.target].kind = "object" THEN EmptyMap
    ELSE Parse(f.inode[f.target])

\* a save that writes the temporary file and never renames it
save_identity_map_NoRename(f, data) ==
    Collect(UnlinkTmp(WriteDoc(OpenTmp(f, {}), OpenTmpFd(f, {}), Serialize(data))), {})

\* _save_identity_map run by a caller with no other caller in flight
save_identity_map(f, data) ==
    LET opened  == OpenTmp(f, {})
        fd      == OpenTmpFd(f, {})
        written == WriteDoc(opened, fd, Serialize(data))
        renamed == RenameTmp(written)
    IN  Collect(UnlinkTmp(renamed), {})

(***************************************************************************)
(* USER.md, as _load_owner_numbers and the Name pattern of                 *)
(* resolve_canonical_id read it.                                           *)
(***************************************************************************)
\* _load_owner_numbers
load_owner_numbers(md) == IF md.exists THEN md.numbers ELSE {}

\* the id of a new owner record
OwnerCanonical(md) ==
    IF md.exists
    THEN IF md.hasName THEN sanitize_canonical_id(md.name)
         ELSE Return(OwnerLiteral)
    ELSE Return(OwnerLiteral)

(***************************************************************************)
(* The API, as functions of the loaded map.  A result carries the value    *)
(* returned (or the raise), the map as the call leaves it, whether the     *)
(* call saves it and whether it read the clock.                            *)
(***************************************************************************)
Result(ret, map, save) == [ret |-> ret, map |-> map, save |-> save]

\* a call on files f: the error of the load when it raises, else r, the
\* call's result on the loaded map
Loaded(f, r) == IF LoadRaises(f) THEN Result(TypeError, EmptyMap, FALSE) ELSE r

\* a scan for the channel string that never finds it
Holders_None(ids, channel_id) == {}

\* the records whose channel list contains channel_id, in dict order
Holders(ids, channel_id) ==
    {i \in DOMAIN ids : channel_id \in Range(ids[i].channels)}

\* the records with is_owner set, in dict order
Owners(ids) == {i \in DOMAIN ids : ids[i].is_owner}

Min(S) == CHOOSE i \in S : \A j \in S : i <= j

\* the bump of updated_at without the append
AppendChannel_NoAppend(ids, k, channel_id, now) ==
    [ids EXCEPT ![IndexOf(ids, k)].updated_at = now]

\* channels.append(channel_id) and the bump of updated_at
AppendChannel(ids, k, channel_id, now) ==
    [ids EXCEPT ![IndexOf(ids, k)].channels = Append(@, channel_id),
                ![IndexOf(ids, k)].updated_at = now]

\* the owner record found by the scan for is_owner
FindOwner(ids) ==
    IF Owners(ids) = {} THEN Raise ELSE Return(ids[Min(Owners(ids))].canonical_id)

\* resolve_canonical_id
resolve_canonical_id(map, channel, provider_user_id, owner_arg, md, now) ==
    LET ids        == map.identities
        channel_id == ChannelId(channel, provider_user_id)
        owner_numbers == IF owner_arg.given THEN owner_arg.numbers
                         ELSE load_owner_numbers(md)
        found      == FindOwner(ids)
        created    == OwnerCanonical(md)
        owner_canonical == IF found.raised THEN created.val ELSE found.val
        ids1       == IF found.raised
                      THEN SetItem(ids, owner_canonical,
                                   NewRecord(owner_canonical, TRUE,
                                             Capitalize(owner_canonical), now))
                      ELSE ids
    IN  IF Holders(ids, channel_id) # {}
        THEN Result(Return(ids[Min(Holders(ids, channel_id))].canonical_id),
                    map, FALSE)
        ELSE IF provider_user_id \in owner_numbers
        THEN IF found.raised /\ created.raised
             THEN Result(Raise, map, FALSE)
             ELSE IF channel_id \notin Range(Lookup(ids1, owner_canonical).channels)
                  THEN Result(Return(owner_canonical),
                              [map EXCEPT !.identities =
                                  AppendChannel(ids1, owner_canonical, channel_id, now)],
                              TRUE)
                  ELSE Result(Return(owner_canonical),
                              [map EXCEPT !.identities = ids1], FALSE)
        ELSE Result(Return(StrangerId(channel, provider_user_id)), map, FALSE)

\* a record created by add_channel with the owner flag of the resolver's
\* record literal
AddedRecord_Owner(canonical_id, display_name, now) ==
    NewRecord(canonical_id, TRUE,
              IF display_name # <<>> THEN display_name ELSE Capitalize(canonical_id),
              now)

\* the record add_channel creates for a new canonical id
AddedRecord(canonical_id, display_name, now) ==
    NewRecord(canonical_id, FALSE,
              IF display_name # <<>> THEN display_name ELSE Capitalize(canonical_id),
              now)

\* add_channel, after the canonical id was sanitized
add_channel(map, canonical_id, channel, provider_user_id, display_name, now) ==
    LET ids        == map.identities
        channel_id == ChannelId(channel, provider_user_id)
        ids1       == IF canonical_id \notin Keys(ids)
                      THEN SetItem(ids, canonical_id,
                                   AddedRecord(canonical_id, display_name, now))
                      ELSE ids
    IN  IF channel_id \notin Range(Lookup(ids1, canonical_id).channels)
        THEN Result(Return(<<>>),
                    [map EXCEPT !.identities =
                        AppendChannel(ids1, canonical_id, channel_id, now)],
                    TRUE)
        ELSE Result(Return(<<>>), [map EXCEPT !.identities = ids1], FALSE)

\* the bump of updated_at without the remove
RemoveFrom_Bump(ids, k, channel_id, now) ==
    [ids EXCEPT ![IndexOf(ids, k)].updated_at = now]

\* channels.remove(channel_id) and the bump of updated_at
RemoveFrom(ids, k, channel_id, now) ==
    [ids EXCEPT ![IndexOf(ids, k)].channels = ListRemove(@, channel_id),
                ![IndexOf(ids, k)].updated_at = now]

\* a remove_channel that saves whether or not it removed something
remove_channel_Touch(map, canonical_id, channel, provider_user_id, now) ==
    LET ids        == map.identities
        channel_id == ChannelId(channel, provider_user_id)
    IN  IF canonical_id \in Keys(ids)
           /\ channel_id \in Range(Lookup(ids, canonical_id).channels)
        THEN Result(Return(<<>>),
                    [map EXCEPT !.identities =
                        RemoveFrom(ids, canonical_id, channel_id, now)],
                    TRUE)
        ELSE Result(Return(<<>>), map, TRUE)

\* remove_channel, after the canonical id was sanitized
remove_channel(map, canonical_id, channel, provider_user_id, now) ==
    LET ids        == map.identities
        channel_id == ChannelId(channel, provider_user_id)
    IN  IF canonical_id \in Keys(ids)
           /\ channel_id \in Range(Lookup(ids, canonical_id).channels)
        THEN Result(Return(<<>>),
                    [map EXCEPT !.identities =
                        RemoveFrom(ids, canonical_id, channel_id, now)],
                    TRUE)
        ELSE Result(Return(<<>>), map, FALSE)

\* list_identities
list_identities(f) == load_identity_map(f).identities

\* get_channels: the id is sanitized, then looked up
get_channels(f, canonical_id) ==
    LET s   == sanitize_canonical_id(canonical_id)
        ids == load_identity_map(f).identities
    IN  IF s.raised THEN Raise
        ELSE IF LoadRaises(f) THEN TypeError
        ELSE IF s.val \in Keys(ids) THEN Return(Lookup(ids, s.val).channels)
        ELSE Return(<<>>)

\* is_owner: the id is sanitized, then looked up
is_owner(f, canonical_id) ==
    LET s   == sanitize_canonical_id(canonical_id)
        ids == load_identity_map(f).identities
    IN  IF s.raised THEN [raised |-> TRUE, val |-> FALSE]
        ELSE IF LoadRaises(f) THEN TypeError
        ELSE IF s.val \in Keys(ids)
             THEN [raised |-> FALSE, val |-> Lookup(ids, s.val).is_owner]
             ELSE [raised |-> FALSE, val |-> FALSE]

(***************************************************************************)
(* Inputs of the calls.                                                    *)
(***************************************************************************)
Channels == {<<"t">>}
UserIds == {<<"7">>, <<"8">>}
ChannelIds == {ChannelId(c, u) : c \in Channels, u \in UserIds}

\* the owner_numbers argument: None (read USER.md) or an explicit list
OwnerArgs ==
    {[given |-> FALSE, numbers |-> {}],
     [given |-> TRUE,  numbers |-> {<<"7">>, <<"8">>}]}

\* raw canonical ids: "al", "B-" (sanitized to "b") and ".." (rejected)
RawIds == {<<"a","l">>, <<"B","-">>, <<".",".">>}

\* raw strings for the sanitizer: every string of at most MaxRawLen of these
\* characters, alone and after 63 times "a"
SanChars == {"a", "B", "7", "-", "_", ".", "/"}
SanShort == UNION {[1..n -> SanChars] : n \in 0..MaxRawLen}
LongPrefix == [i \in 1..(MaxIdLen - 1) |-> "a"]
SanInputs == SanShort \cup {LongPrefix \o x : x \in SanShort}

\* the display_name argument: None or "Z"
DisplayNames == {<<>>, <<"Z">>}

\* a name of 65 characters whose 64th is '-': "aaa...a-b"
LongName == [i \in 1..(MaxIdLen + 1) |->
                IF i < MaxIdLen THEN "a" ELSE IF i = MaxIdLen THEN "-" ELSE "b"]

UserMd(exists, hasName, name) ==
    [exists  |-> exists,
     numbers |-> IF exists THEN {<<"7">>} ELSE {},
     hasName |-> hasName,
     name    |-> name]

\* USER.md: missing, without a Name line, or naming "Ty", "Al" (the id
\* add_channel makes of the raw id "al"), ".." or LongName
UserMdDocs ==
    {UserMd(FALSE, FALSE, <<>>),
     UserMd(TRUE, FALSE, <<>>),
     UserMd(TRUE, TRUE, <<"T","y">>),
     UserMd(TRUE, TRUE, <<"A","l">>),
     UserMd(TRUE, TRUE, <<".",".">>),
     UserMd(TRUE, TRUE, LongName)}

\* the USER.md of the test set-up: it names "Ty" and lists the number 7
ConcUserMd == UserMd(TRUE, TRUE, <<"T","y">>)

(***************************************************************************)
(* State.                                                                  *)
(***************************************************************************)
VARIABLES
    fs,         \* the file system
    clock,      \* datetime.now: the number of timestamps handed out so far
    userMd,     \* the content of USER.md
    proc,       \* the concurrent callers: position and locals of each
    last,       \* the call that ended last, by a caller running alone
    ownerOnly,  \* every call so far was a resolve of an owner candidate
    hist,       \* while ownerOnly: the channel ids resolved, with the results
    san         \* a raw string and what _sanitize_canonical_id made of it

vars == <<fs, clock, userMd, proc, last, ownerOnly, hist, san>>

\* no string was sanitized on its own
NoSan == [raw |-> <<>>, first |-> Raise, second |-> Raise, calls |-> 0]

Idle ==
    [pc |-> "idle", data |-> EmptyMap, fd |-> NoFile,
     torn |-> FALSE, raised |-> FALSE]

NoCall == [op |-> "none", ret |-> Return(<<>>), saved |-> FALSE]

Call(op, ret, saved) == [op |-> op, ret |-> ret, saved |-> saved]

Init ==
    /\ fs = FsInit
    /\ clock = 0
    /\ userMd \in UserMdDocs
    /\ proc = [p \in Procs |-> Idle]
    /\ last = NoCall
    /\ ownerOnly = TRUE
    /\ hist = {}
    /\ san = NoSan

(***************************************************************************)
(* Calls made by one caller at a time: each runs from its load to its      *)
(* return with no other call in between.                                   *)
(***************************************************************************)
\* a call that saves its map whether or not it changed it
Persist_Always(r) == save_identity_map(fs, r.map)

\* the file system after a call with result r
Persist(r) == IF r.save THEN save_identity_map(fs, r.map) ELSE fs

\* a call that saves stamps the record with the current time
Finish(r) ==
    /\ r.save => clock < MaxClock
    /\ fs' = Persist(r)
    /\ clock' = IF r.save THEN clock + 1 ELSE clock

\* the owner candidates a resolve call uses
OwnerNumbers(owner_arg) ==
    IF owner_arg.given THEN owner_arg.numbers ELSE load_owner_numbers(userMd)

Resolve(channel, provider_user_id, owner_arg) ==
    LET r == Loaded(fs,
                    resolve_canonical_id(load_identity_map(fs), channel,
                                         provider_user_id, owner_arg, userMd,
                                         clock))
        still == ownerOnly /\ provider_user_id \in OwnerNumbers(owner_arg)
    IN  /\ Finish(r)
        /\ last' = Call("resolve", r.ret, r.save)
        /\ ownerOnly' = still
        /\ hist' = IF still
                   THEN hist \cup {[channel_id |-> ChannelId(channel, provider_user_id),
                                    ret |-> r.ret]}
                   ELSE {}
        /\ UNCHANGED <<userMd, proc, san>>

AddChannel(raw, channel, provider_user_id, display_name) ==
    LET s == sanitize_canonical_id(raw)
        r == IF s.raised THEN Result(Raise, EmptyMap, FALSE)
             ELSE Loaded(fs,
                         add_channel(load_identity_map(fs), s.val, channel,
                                     provider_user_id, display_name, clock))
    IN  /\ Finish(r)
        /\ last' = Call("add_channel", r.ret, r.save)
        /\ ownerOnly' = FALSE
        /\ hist' = {}
        /\ UNCHANGED <<userMd, proc, san>>

RemoveChannel(raw, channel, provider_user_id) ==
    LET s == sanitize_canonical_id(raw)
        r == IF s.raised THEN Result(Raise, EmptyMap, FALSE)
             ELSE Loaded(fs,
                         remove_channel(load_identity_map(fs), s.val, channel,
                                        provider_user_id, clock))
    IN  /\ Finish(r)
        /\ last' = Call("remove_channel", r.ret, r.save)
        /\ ownerOnly' = FALSE
        /\ hist' = {}
        /\ UNCHANGED <<userMd, proc, san>>

Next ==
    \/ \E c \in Channels, u \in UserIds, o \in OwnerArgs : Resolve(c, u, o)
    \/ \E k \in RawIds, c \in Channels, u \in UserIds, d \in DisplayNames :
          AddChannel(k, c, u, d)
    \/ \E k \in RawIds, c \in Channels, u \in UserIds : RemoveChannel(k, c, u)

Spec == Init /\ [][Next]_vars

(***************************************************************************)
(* The read-only queries, and a map file that something other than         *)
(* _save_identity_map wrote.                                               *)
(***************************************************************************)
\* a complete file of the given kind
Damaged(kind) ==
    [written |-> TRUE, doc |-> Serialize(EmptyMap),
     size |-> DocLen(Serialize(EmptyMap)), kind |-> kind]

\* the map file is replaced by a file that is no store
Corrupt(kind) ==
    /\ fs' = [fs EXCEPT !.target = 1, !.inode[1] = Damaged(kind)]
    /\ last' = NoCall
    /\ ownerOnly' = FALSE
    /\ hist' = {}
    /\ UNCHANGED <<clock, userMd, proc, san>>

\* a query: it saves nothing
Query(op, ret) ==
    /\ last' = Call(op, ret, FALSE)
    /\ ownerOnly' = FALSE
    /\ hist' = {}
    /\ UNCHANGED <<fs, clock, userMd, proc, san>>

ListIdentities ==
    Query("list_identities",
          IF LoadRaises(fs) THEN TypeError ELSE Return(list_identities(fs)))

GetChannels(raw) == Query("get_channels", get_channels(fs, raw))

IsOwner(raw) == Query("is_owner", is_owner(fs, raw))

QueryInit == Init /\ userMd = ConcUserMd

QueryNext ==
    \/ Next
    \/ \E kind \in FileKinds \ {"store"} : Corrupt(kind)
    \/ ListIdentities
    \/ \E k \in RawIds : GetChannels(k)
    \/ \E k \in RawIds : IsOwner(k)

QuerySpec == QueryInit /\ [][QueryNext]_vars

(***************************************************************************)
(* Concurrent callers.  A call is a sequence of steps: the load with the   *)
(* computation on the loaded map, then, when the call saves, the steps of  *)
(* _save_identity_map: open, flock, write and unlock, rename, cleanup.     *)
(***************************************************************************)
\* the descriptors open in the callers other than p
OpenFds(p) ==
    {proc[q].fd : q \in {r \in Procs \ {p} : proc[r].pc \in {"lock", "write"}}}

\* flock(LOCK_SH) of the load is granted when no caller holds LOCK_EX
CanRead == IF fs.target = NoFile THEN TRUE ELSE fs.lock[fs.target] = NoPid

\* the load read a file that json.load rejects
ReadTorn == fs.target # NoFile /\ ParseFails(fs.inode[fs.target])

\* the load and the computation of a call: it ends there, or goes on to save
Begin(p, r) ==
    /\ proc[p].pc = "idle"
    /\ CanRead
    /\ r.save => clock < MaxSaves
    /\ clock' = IF r.save THEN clock + 1 ELSE clock
    /\ proc' = [proc EXCEPT ![p] =
                  [pc     |-> IF r.save THEN "open" ELSE "idle",
                   data   |-> IF r.save THEN r.map ELSE EmptyMap,
                   fd     |-> NoFile,
                   torn   |-> ReadTorn,
                   raised |-> FALSE]]
    /\ UNCHANGED <<fs, userMd, last, ownerOnly, hist, san>>

CResolve(p, channel, provider_user_id, owner_arg) ==
    Begin(p,
          Loaded(fs,
                 resolve_canonical_id(load_identity_map(fs), channel,
                                      provider_user_id, owner_arg, userMd,
                                      clock)))

CAddChannel(p, raw, channel, provider_user_id, display_name) ==
    LET s == sanitize_canonical_id(raw)
    IN  IF s.raised
        THEN /\ proc[p].pc = "idle"
             /\ proc' = [proc EXCEPT ![p] = Idle]
             /\ UNCHANGED <<fs, clock, userMd, last, ownerOnly, hist, san>>
        ELSE Begin(p,
                   Loaded(fs,
                          add_channel(load_identity_map(fs), s.val, channel,
                                      provider_user_id, display_name, clock)))

CRemoveChannel(p, raw, channel, provider_user_id) ==
    LET s == sanitize_canonical_id(raw)
    IN  IF s.raised
        THEN /\ proc[p].pc = "idle"
             /\ proc' = [proc EXCEPT ![p] = Idle]
             /\ UNCHANGED <<fs, clock, userMd, last, ownerOnly, hist, san>>
        ELSE Begin(p,
                   Loaded(fs,
                          remove_channel(load_identity_map(fs), s.val, channel,
                                         provider_user_id, clock)))

\* list_identities: a load and nothing else
CList(p) ==
    Begin(p,
          Loaded(fs, Result(Return(<<>>), load_identity_map(fs), FALSE)))

\* open(temp_path, 'w')
COpen(p) ==
    /\ proc[p].pc = "open"
    /\ fs' = OpenTmp(fs, OpenFds(p))
    /\ proc' = [proc EXCEPT ![p].pc = "lock",
                            ![p].fd = OpenTmpFd(fs, OpenFds(p))]
    /\ UNCHANGED <<clock, userMd, last, ownerOnly, hist, san>>

\* fcntl.flock(f.fileno(), fcntl.LOCK_EX): blocks while another caller
\* holds the lock of the same inode
CLock(p) ==
    /\ proc[p].pc = "lock"
    /\ fs.lock[proc[p].fd] = NoPid
    /\ fs' = [fs EXCEPT !.lock[proc[p].fd] = p]
    /\ proc' = [proc EXCEPT ![p].pc = "write"]
    /\ UNCHANGED <<clock, userMd, last, ownerOnly, hist, san>>

\* a write whose finally clause leaves the lock held
CWrite_KeepLock(p) ==
    /\ proc[p].pc = "write"
    /\ fs' = WriteDoc(fs, proc[p].fd, Serialize(proc[p].data))
    /\ proc' = [proc EXCEPT ![p].pc = "rename", ![p].fd = NoFile]
    /\ UNCHANGED <<clock, userMd, last, ownerOnly, hist, san>>

\* json.dump, flush, fsync, then flock(LOCK_UN) and the close of the file
CWrite(p) ==
    /\ proc[p].pc = "write"
    /\ fs' = [WriteDoc(fs, proc[p].fd, Serialize(proc[p].data))
                EXCEPT !.lock[proc[p].fd] = NoPid]
    /\ proc' = [proc EXCEPT ![p].pc = "rename", ![p].fd = NoFile]
    /\ UNCHANGED <<clock, userMd, last, ownerOnly, hist, san>>

\* temp_path.replace(map_path); FileNotFoundError when the temporary path
\* names no file
CRename(p) ==
    /\ proc[p].pc = "rename"
    /\ fs' = IF RenameFails(fs) THEN fs ELSE RenameTmp(fs)
    /\ proc' = [proc EXCEPT ![p].pc = "cleanup",
                            ![p].raised = RenameFails(fs)]
    /\ UNCHANGED <<clock, userMd, last, ownerOnly, hist, san>>

\* finally: if temp_path.exists(): temp_path.unlink(); then the call ends,
\* re-raising the error of the rename if there was one
CCleanup(p) ==
    /\ proc[p].pc = "cleanup"
    /\ fs' = Collect(UnlinkTmp(fs), OpenFds(p))
    /\ proc' = [proc EXCEPT ![p] = Idle]
    /\ UNCHANGED <<clock, userMd, last, ownerOnly, hist, san>>

\* the steps of _save_identity_map
SaveStep(p) == COpen(p) \/ CLock(p) \/ CWrite(p) \/ CRename(p) \/ CCleanup(p)

\* the inputs of the concurrent callers: USER.md is ConcUserMd, the owner
\* candidates are read from it, and no display name is passed
ConcOwnerArg == [given |-> FALSE, numbers |-> {}]
ConcRawIds == {<<"a","l">>, <<"B","-">>}

ConcInit == Init /\ userMd = ConcUserMd

ConcNext ==
    \/ \E p \in Procs, c \in Channels, u \in UserIds :
          CResolve(p, c, u, ConcOwnerArg)
    \/ \E p \in Procs, k \in ConcRawIds, c \in Channels, u \in UserIds :
          CAddChannel(p, k, c, u, <<>>)
    \/ \E p \in Procs, k \in ConcRawIds, c \in Channels, u \in UserIds :
          CRemoveChannel(p, k, c, u)
    \/ \E p \in Procs : CList(p)
    \/ \E p \in Procs : SaveStep(p)

ConcSpec == ConcInit /\ [][ConcNext]_vars

\* concurrent add_channel calls only
AddNext ==
    \/ \E p \in Procs, k \in ConcRawIds, c \in Channels, u \in UserIds :
          CAddChannel(p, k, c, u, <<>>)
    \/ \E p \in Procs : SaveStep(p)

AddSpec == ConcInit /\ [][AddNext]_vars

\* the scheduler runs every caller that can take a step, and flock grants a
\* free lock to a caller that waits for it: each caller's save steps are
\* taken when they stay enabled
FairSpec == ConcSpec /\ \A p \in Procs : WF_vars(SaveStep(p))

(***************************************************************************)
(* I/O faults inside _save_identity_map: json.dump, flush or fsync raises  *)
(* (the try/finally releases the lock and the with statement closes the    *)
(* file), or the rename raises.  The error reaches the outer finally       *)
(* clause, which unlinks the temporary file, and then the caller.          *)
(***************************************************************************)
SaveFaults == {"write", "fsync"}

\* what the inode holds after the failed step: an incomplete document when
\* json.dump or flush raised, the whole document when fsync raised
FailedWrite(f, fd, doc, fault) ==
    IF fault = "fsync" THEN WriteDoc(f, fd, doc)
    ELSE [f EXCEPT !.inode[fd].written = FALSE]

CWriteFails(p, fault) ==
    /\ proc[p].pc = "write"
    /\ fs' = [FailedWrite(fs, proc[p].fd, Serialize(proc[p].data), fault)
                EXCEPT !.lock[proc[p].fd] = NoPid]
    /\ proc' = [proc EXCEPT ![p].pc = "cleanup", ![p].fd = NoFile,
                            ![p].raised = TRUE]
    /\ UNCHANGED <<clock, userMd, last, ownerOnly, hist, san>>

\* temp_path.replace(map_path) raises OSError and renames nothing
CRenameFails(p) ==
    /\ proc[p].pc = "rename"
    /\ proc' = [proc EXCEPT ![p].pc = "cleanup", ![p].raised = TRUE]
    /\ UNCHANGED <<fs, clock, userMd, last, ownerOnly, hist, san>>

FaultNext ==
    \/ AddNext
    \/ \E p \in Procs, fault \in SaveFaults : CWriteFails(p, fault)
    \/ \E p \in Procs : CRenameFails(p)

FaultSpec == ConcInit /\ [][FaultNext]_vars

(***************************************************************************)
(* Channels and provider user ids that hold the separator ':' (nothing in  *)
(* the code rejects or escapes it): the calls of one caller with such      *)
(* pairs, and no owner configured.                                         *)
(***************************************************************************)
\* channel "t" or "t:7", provider user id "7" or "7:7"
PairChannels == {<<"t">>, <<"t",":","7">>}
PairUserIds == {<<"7">>, <<"7",":","7">>}

PairInit == Init /\ userMd = UserMd(FALSE, FALSE, <<>>)

PairNext ==
    \/ \E c \in PairChannels, u \in PairUserIds : Resolve(c, u, ConcOwnerArg)
    \/ \E k \in ConcRawIds, c \in PairChannels, u \in PairUserIds :
          AddChannel(k, c, u, <<>>)
    \/ \E k \in ConcRawIds, c \in PairChannels, u \in PairUserIds :
          RemoveChannel(k, c, u)

PairSpec == PairInit /\ [][PairNext]_vars

(***************************************************************************)
(* The sanitizer on its own: a raw string is sanitized, and the result is  *)
(* sanitized again (as get_channels and is_owner do with a stored key).    *)
(***************************************************************************)
Sanitize ==
    /\ san.calls = 0
    /\ san' = [san EXCEPT !.first = sanitize_canonical_id(san.raw), !.calls = 1]
    /\ UNCHANGED <<fs, clock, userMd, proc, last, ownerOnly, hist>>

SanitizeAgain ==
    /\ san.calls = 1
    /\ ~san.first.raised
    /\ san' = [san EXCEPT !.second = sanitize_canonical_id(san.first.val),
                          !.calls = 2]
    /\ UNCHANGED <<fs, clock, userMd, proc, last, ownerOnly, hist>>

SanInit ==
    /\ fs = FsInit
    /\ clock = 0
    /\ userMd = ConcUserMd
    /\ proc = [p \in Procs |-> Idle]
    /\ last = NoCall
    /\ ownerOnly = TRUE
    /\ hist = {}
    /\ san \in {[NoSan EXCEPT !.raw = x] : x \in SanInputs}

SanNext == Sanitize \/ SanitizeAgain

SanSpec == SanInit /\ [][SanNext]_vars

\* the map a load returns in the current state
Stored == load_identity_map(fs).identities

TypeOK ==
    /\ clock \in 0..MaxClock
    /\ userMd \in UserMdDocs
    /\ \A i \in DOMAIN Stored : Stored[i].updated_at < clock

(***************************************************************************)
(* Properties.                                                             *)
(***************************************************************************)
\* C1: every channel string is in the channel list of at most one record,
\* in every store reachable by resolve, add_channel and remove_channel calls
C1_ChannelUnique ==
    \A channel_id \in ChannelIds :
        Cardinality({i \in DOMAIN Stored :
                        channel_id \in Range(Stored[i].channels)}) <= 1

\* C2: the persisted store has at most one record with is_owner set, under
\* every interleaving of the load/mutate/save cycles of concurrent calls
C2_OwnerUnique ==
    Cardinality({i \in DOMAIN Stored : Stored[i].is_owner}) <= 1

\* two callers in flight each created an owner record of their own, having
\* both loaded a map without an owner
C2_Witness ==
    \E p, q \in Procs :
        /\ p # q
        /\ proc[p].pc # "idle" /\ proc[q].pc # "idle"
        /\ Owners(proc[p].data.identities) # {}
        /\ Owners(proc[q].data.identities) # {}
        /\ proc[p].data # proc[q].data

\* C3: what a load reads from the map file is the complete document of
\* some save (or the initial content), never a truncated or partly
\* overwritten file
C3_AtomicVisibility == \A p \in Procs : ~proc[p].torn

\* C4: when the concurrent add_channel calls have all ended, the map file
\* is the complete document one of them saved
C4_NoCorruption ==
    ((\A p \in Procs : proc[p].pc = "idle") /\ fs.target # NoFile)
        => ~ParseFails(fs.inode[fs.target])

\* C5: from an empty store, with USER.md fixed, every resolve of an owner
\* candidate returns the same canonical id, and the owner record's channel
\* list contains the channel string of each of these calls
C5_OwnerConverges ==
    ownerOnly =>
        \A h \in hist :
            /\ ~h.ret.raised
            /\ \A g \in hist : g.ret = h.ret
            /\ \E i \in Owners(Stored) :
                  /\ Stored[i].canonical_id = h.ret.val
                  /\ h.channel_id \in Range(Stored[i].channels)

\* C6: after resolve registered a channel with the owner and returned c,
\* is_owner(c) is true and list_identities has an owner record under c
C6_OwnerRecognised ==
    (last.op = "resolve" /\ last.saved) =>
        /\ is_owner(fs, last.ret.val) = [raised |-> FALSE, val |-> TRUE]
        /\ \E i \in DOMAIN list_identities(fs) :
              /\ list_identities(fs)[i].canonical_id = last.ret.val
              /\ list_identities(fs)[i].is_owner

\* C7: a resolve whose channel string is in no record and whose
\* provider_user_id is no owner candidate returns
\* "stranger:<channel>:<provider_user_id>", saves nothing, reads no clock
\* and leaves the files as they are
C7_StrangerPure ==
    [][\A c \in Channels, u \in UserIds, o \in OwnerArgs :
          (/\ Resolve(c, u, o)
           /\ \A i \in DOMAIN Stored :
                 ChannelId(c, u) \notin Range(Stored[i].channels)
           /\ u \notin OwnerNumbers(o))
          => /\ last'.ret = Return(<<"s","t","r","a","n","g","e","r",":">>
                                   \o c \o <<":">> \o u)
             /\ ~last'.saved
             /\ fs' = fs
             /\ clock' = clock]_vars

\* a stranger was resolved against a store that has records
C7_Witness ==
    /\ last.op = "resolve"
    /\ ~last.ret.raised
    /\ last.ret.val = <<"s","t","r","a","n","g","e","r",":","t",":","8">>
    /\ Stored # <<>>

\* C8: a resolve whose channel string is in some record's channel list
\* returns the canonical id of a record that holds it, saves nothing and
\* leaves the files and every updated_at as they are, owner candidate or not
C8_LookupPure ==
    [][\A c \in Channels, u \in UserIds, o \in OwnerArgs :
          (/\ Resolve(c, u, o)
           /\ \E i \in DOMAIN Stored :
                 ChannelId(c, u) \in Range(Stored[i].channels))
          => /\ ~last'.ret.raised
             /\ \E i \in DOMAIN Stored :
                   /\ ChannelId(c, u) \in Range(Stored[i].channels)
                   /\ last'.ret.val = Stored[i].canonical_id
             /\ ~last'.saved
             /\ fs' = fs
             /\ clock' = clock]_vars

\* an owner candidate was resolved through the lookup path to a record that
\* is not the owner's
C8_Witness ==
    /\ last.op = "resolve"
    /\ ~last.saved
    /\ ~last.ret.raised
    /\ \E i \in DOMAIN Stored :
          /\ Stored[i].canonical_id = last.ret.val
          /\ ~Stored[i].is_owner
          /\ ChannelId(<<"t">>, <<"7">>) \in Range(Stored[i].channels)

\* the files after a call with result r made on files f
After(f, r) == IF r.save THEN save_identity_map(f, r.map) ELSE f

\* C9: in every reachable store, two resolve calls in a row for the same
\* pair return the same canonical id, and the second changes nothing
C9_ResolveIdempotent ==
    \A c \in Channels, u \in UserIds, o \in OwnerArgs :
        LET r1 == resolve_canonical_id(load_identity_map(fs), c, u, o,
                                       userMd, clock)
            f1 == After(fs, r1)
            r2 == resolve_canonical_id(load_identity_map(f1), c, u, o,
                                       userMd, clock + 1)
        IN  /\ r2.ret = r1.ret
            /\ ~r2.save
            /\ After(f1, r2) = f1

\* the same owner channel was resolved twice in a row: the first call
\* registered it, the second found it
C9_Witness ==
    /\ ownerOnly
    /\ Cardinality(hist) = 1
    /\ clock = 1
    /\ last.op = "resolve"
    /\ ~last.saved
    /\ ~last.ret.raised

\* C10: in every reachable store, after add_channel(c, ch, u) an identical
\* call saves nothing and changes nothing, and the record's channel list
\* holds the channel string exactly once
C10_AddIdempotent ==
    \A k \in RawIds, c \in Channels, u \in UserIds, d \in DisplayNames :
        LET s  == sanitize_canonical_id(k)
            r1 == add_channel(load_identity_map(fs), s.val, c, u, d, clock)
            f1 == After(fs, r1)
            r2 == add_channel(load_identity_map(f1), s.val, c, u, d, clock + 1)
        IN  ~s.raised =>
               /\ ~r2.save
               /\ After(f1, r2) = f1
               /\ s.val \in Keys(load_identity_map(f1).identities)
               /\ Count(Lookup(load_identity_map(f1).identities, s.val).channels,
                        ChannelId(c, u)) = 1

\* an add_channel call found its channel string in the record and did
\* nothing
C10_Witness ==
    /\ last.op = "add_channel"
    /\ ~last.saved
    /\ ~last.ret.raised
    /\ clock >= 1

C12_RemoveExact ==
    \A k \in RawIds, c \in Channels, u \in UserIds :
        LET s      == sanitize_canonical_id(k)
            ch     == ChannelId(c, u)
            before == load_identity_map(fs).identities
            r      == remove_channel(load_identity_map(fs), s.val, c, u, clock)
            after  == load_identity_map(After(fs, r)).identities
            Other(x) == x # ch
        IN  (/\ ~s.raised
             /\ \E i \in DOMAIN before :
                   /\ before[i].canonical_id = s.val
                   /\ ch \in Range(before[i].channels))
            => /\ ~r.ret.raised
               /\ r.save
               /\ Len(after) = Len(before)
               /\ \A i \in DOMAIN before :
                     IF before[i].canonical_id = s.val
                     THEN /\ after[i].canonical_id = s.val
                          /\ after[i].channels = SelectSeq(before[i].channels, Other)
                          /\ after[i].is_owner = before[i].is_owner
                          /\ after[i].display_name = before[i].display_name
                          /\ after[i].created_at = before[i].created_at
                     ELSE after[i] = before[i]

\* a remove_channel call removed the only channel of a record, and the
\* record is still in the store
C12_Witness ==
    /\ last.op = "remove_channel"
    /\ last.saved
    /\ ~last.ret.raised
    /\ Len(Stored) = 1
    /\ Stored[1].channels = <<>>

\* C13: when _sanitize_canonical_id succeeds on a raw string, it succeeds on
\* its own result and returns that result unchanged
C13_SanitizeIdempotent ==
    san.calls = 2 => san.second = san.first

\* C14: _sanitize_canonical_id raises exactly when the raw string has no
\* letter and no digit; otherwise it returns between 1 and 64 characters,
\* each a lowercase letter, a digit, '-' or '_'
C14_SanitizePost ==
    san.calls >= 1 =>
        /\ san.first.raised <=>
              (\A i \in DOMAIN san.raw :
                  san.raw[i] \notin
                      (Range(Lowers) \cup Range(Uppers) \cup Range(Digits)))
        /\ ~san.first.raised =>
              /\ Len(san.first.val) >= 1
              /\ Len(san.first.val) <= 64
              /\ \A i \in DOMAIN san.first.val :
                    san.first.val[i] \in
                        (Range(Lowers) \cup Range(Digits) \cup {"-", "_"})

\* a raw string of more than 64 characters with a '/' and an uppercase
\* letter was cut to 64 characters
C14_Witness ==
    /\ san.calls >= 1
    /\ Len(san.raw) > 64
    /\ "/" \in Range(san.raw)
    /\ "B" \in Range(san.raw)
    /\ ~san.first.raised
    /\ Len(san.first.val) = 64

\* C15: with a map file that is no store (text that is no JSON, an object
\* without "identities", or null), list_identities, get_channels, is_owner
\* and a resolve that saves nothing raise no error of the load and return
\* what they return on an empty store
C15_QueriesSurviveCorruption ==
    (fs.target # NoFile /\ fs.inode[fs.target].kind # "store") =>
        /\ last.op = "list_identities" => last.ret = Return(<<>>)
        /\ last.op = "get_channels" => last.ret \in {Return(<<>>), Raise}
        /\ last.op = "is_owner" =>
              /\ "error" \notin DOMAIN last.ret
              /\ ~last.ret.val
        /\ (last.op = "resolve" /\ ~last.saved) =>
              /\ "error" \notin DOMAIN last.ret
              /\ ~last.ret.raised

\* C16: a call whose canonical id cannot be sanitized raises ValueError and
\* leaves files and clock as they are (add_channel, remove_channel,
\* get_channels, is_owner), and so does a resolve that raises
C16_InvalidIdFailsFast ==
    [][/\ \A k \in RawIds, c \in Channels, u \in UserIds, d \in DisplayNames :
            (sanitize_canonical_id(k).raised /\ AddChannel(k, c, u, d))
            => (last'.ret = Raise /\ ~last'.saved /\ fs' = fs /\ clock' = clock)
       /\ \A k \in RawIds, c \in Channels, u \in UserIds :
            (sanitize_canonical_id(k).raised /\ RemoveChannel(k, c, u))
            => (last'.ret = Raise /\ ~last'.saved /\ fs' = fs /\ clock' = clock)
       /\ \A c \in Channels, u \in UserIds, o \in OwnerArgs :
            (last'.ret.raised /\ Resolve(c, u, o))
            => (last'.ret = Raise /\ ~last'.saved /\ fs' = fs /\ clock' = clock)
       /\ \A k \in RawIds :
            sanitize_canonical_id(k).raised
            => /\ get_channels(fs', k) = Raise
               /\ is_owner(fs', k) = [raised |-> TRUE, val |-> FALSE]]_vars

\* an add_channel call with an id that cannot be sanitized raised on a store
\* that has records
C16_Witness ==
    /\ last.op = "add_channel"
    /\ last.ret.raised
    /\ Stored # <<>>

\* C17: in every reachable store, saving what a load returned leaves a file
\* that loads to the same map, and saving the map a call built leaves a file
\* that loads to a map with the same version and the same records
C17_RoundTrip ==
    LET Same(a, b) ==
            /\ a.version = b.version
            /\ Len(a.identities) = Len(b.identities)
            /\ Range(a.identities) = Range(b.identities)
        Back(data) == load_identity_map(save_identity_map(fs, data))
    IN  /\ Back(load_identity_map(fs)) = load_identity_map(fs)
        /\ \A k \in RawIds, c \in Channels, u \in UserIds, d \in DisplayNames :
              LET id == sanitize_canonical_id(k)
                  r  == add_channel(load_identity_map(fs), id.val, c, u, d, clock)
              IN  ~id.raised => Same(Back(r.map), r.map)
        /\ \A c \in Channels, u \in UserIds, o \in OwnerArgs :
              LET r == resolve_canonical_id(load_identity_map(fs), c, u, o,
                                            userMd, clock)
              IN  ~r.ret.raised => Same(Back(r.map), r.map)

\* a map of two records was saved whose second record, in the order of the
\* dict, comes first in the file
C17_Witness ==
    /\ last.saved
    /\ Len(Stored) = 2
    /\ Stored[1].created_at > Stored[2].created_at

\* C18: a resolve call never raises, and the owner record it creates has
\* the sanitized name of USER.md as its id, or "owner" when there is no
\* name or the name cannot be sanitized
C18_OwnerFallback ==
    last.op = "resolve" =>
        /\ ~last.ret.raised
        /\ \A i \in DOMAIN Stored :
              (last.saved /\ Stored[i].is_owner /\ Stored[i].created_at = clock - 1)
              => Stored[i].canonical_id =
                    (IF userMd.exists /\ userMd.hasName
                        /\ ~sanitize_canonical_id(userMd.name).raised
                     THEN sanitize_canonical_id(userMd.name).val
                     ELSE <<"o","w","n","e","r">>)

\* C19: a rename that publishes the complete document of its caller's map
\* makes that map the store: a record that another call saved in between,
\* and that the caller's load did not see, is gone
C19_LastWriterWins ==
    [][\A p \in Procs :
          (/\ CRename(p)
           /\ ~RenameFails(fs)
           /\ fs.inode[fs.tmp].written
           /\ fs.inode[fs.tmp].doc = Serialize(proc[p].data)
           /\ fs.inode[fs.tmp].size = DocLen(Serialize(proc[p].data)))
          => /\ Stored' = SortByKey(proc[p].data.identities)
             /\ \A i \in DOMAIN Stored :
                   Stored[i].canonical_id \notin Keys(proc[p].data.identities)
                   => \A j \in DOMAIN Stored' :
                         Stored'[j].canonical_id # Stored[i].canonical_id]_vars

\* two concurrent add_channel calls on different ids have both renamed
\* without an error and have only the cleanup left, and the store is the
\* map of the one, without the record of the other
C19_Witness ==
    \E p, q \in Procs :
        /\ p # q
        /\ proc[p].pc = "cleanup" /\ ~proc[p].raised
        /\ proc[q].pc = "cleanup" /\ ~proc[q].raised
        /\ fs.tmp = NoFile
        /\ proc[p].data.identities # <<>>
        /\ Stored # <<>>
        /\ Stored = SortByKey(proc[q].data.identities)
        /\ Keys(proc[p].data.identities) \cap Keys(Stored) = {}

\* C20: in every reachable store, every key is still a key after a resolve,
\* add_channel or remove_channel call made on its own, whatever its inputs
C20_KeysStay ==
    LET m == load_identity_map(fs)
        KeysAfter(r) == Keys(load_identity_map(After(fs, r)).identities)
    IN  /\ \A c \in Channels, u \in UserIds, o \in OwnerArgs :
              Keys(m.identities)
                 \subseteq KeysAfter(resolve_canonical_id(m, c, u, o, userMd, clock))
        /\ \A k \in RawIds, c \in Channels, u \in UserIds :
              LET id == sanitize_canonical_id(k)
              IN  ~id.raised =>
                     /\ \A d \in DisplayNames :
                           Keys(m.identities)
                              \subseteq KeysAfter(add_channel(m, id.val, c, u, d, clock))
                     /\ Keys(m.identities)
                           \subseteq KeysAfter(remove_channel(m, id.val, c, u, clock))

\* a record whose channel list became empty after it was created is in the
\* store
C20_Witness ==
    \E i \in DOMAIN Stored :
        /\ Stored[i].channels = <<>>
        /\ Stored[i].updated_at > Stored[i].created_at

\* C21: when a _save_identity_map call ends, the temporary path names no
\* file, and when the call raised (at the write, at flush/fsync or at the
\* rename) the map file is missing or complete, as it was before the call.
C21_SaveFailureAtomic ==
    [][\A p \in Procs :
          (proc[p].pc = "cleanup" /\ proc'[p].pc = "idle") =>
             /\ fs'.tmp = NoFile
             /\ proc[p].raised =>
                   IF fs'.target = NoFile THEN TRUE
                   ELSE ~ParseFails(fs'.inode[fs'.target])]_vars

\* C22: in every reachable store, after a resolve call every record that
\* was there is still there with the same is_owner, display_name and
\* created_at, and its channel list holds every channel id it held.
C22_ResolveKeeps ==
    LET m == load_identity_map(fs)
    IN  \A c \in Channels, u \in UserIds, o \in OwnerArgs :
            LET r    == resolve_canonical_id(m, c, u, o, userMd, clock)
                then == load_identity_map(After(fs, r)).identities
            IN  \A i \in DOMAIN m.identities :
                    \E j \in DOMAIN then :
                        /\ then[j].canonical_id = m.identities[i].canonical_id
                        /\ then[j].is_owner = m.identities[i].is_owner
                        /\ then[j].display_name = m.identities[i].display_name
                        /\ then[j].created_at = m.identities[i].created_at
                        /\ Range(m.identities[i].channels)
                              \subseteq Range(then[j].channels)

\* C23: in every reachable store, get_channels and is_owner called with a
\* key of list_identities return the channel list and the owner flag of
\* the record under that key.
C23_KeysAddressable ==
    \A i \in DOMAIN Stored :
        /\ get_channels(fs, Stored[i].canonical_id) = Return(Stored[i].channels)
        /\ is_owner(fs, Stored[i].canonical_id)
              = [raised |-> FALSE, val |-> Stored[i].is_owner]

\* C26: after the one add_channel call that was ever made with a valid id
\* (the only save so far), at most one (channel, provider_user_id) pair
\* resolves to the record it created: the pair of that call.
C26_PairsDistinct ==
    (clock = 1 /\ last.op = "add_channel" /\ last.saved) =>
        Cardinality({pair \in PairChannels \X PairUserIds :
                        resolve_canonical_id(load_identity_map(fs), pair[1],
                                             pair[2], ConcOwnerArg, userMd,
                                             clock).ret
                           = Return(Stored[1].canonical_id)}) <= 1

\* C24: with no I/O fault no save raises, and no two calls in flight hold
\* a descriptor of the same temporary file (the open of one did not
\* truncate the file the other writes).
C24_NoInterference ==
    /\ \A p \in Procs : ~proc[p].raised
    /\ \A p, q \in Procs :
          (p # q /\ proc[p].pc \in {"lock", "write"}
                 /\ proc[q].pc \in {"lock", "write"}) =>
             proc[p].fd # proc[q].fd

\* C25: every call that started ends, and the map file does not stay
\* locked against the shared lock of a load.
C25_CallsReturn ==
    /\ \A p \in Procs : (proc[p].pc # "idle") ~> (proc[p].pc = "idle")
    /\ (~CanRead) ~> CanRead

\* a caller waits at flock(LOCK_EX) for a lock another caller holds
C25_Witness ==
    \E p \in Procs :
        /\ proc[p].pc = "lock"
        /\ fs.lock[proc[p].fd] \notin {NoPid, p}

====
